---- MODULE Spec2Model ----
(***************************************************************************)
(* MicroSense AI dashboard (src/app.py): the image concentration estimator *)
(* analyze_microplastics and the load / merge / clean / summarise / save   *)
(* pipeline of the Streamlit script.                                       *)
(*                                                                         *)
(* Fixed-point conventions: concentrations, rainfall and coordinates are   *)
(* integers in hundredths (12.30 ppm is 1230); times are integer minutes.  *)
(***************************************************************************)
EXTENDS Integers, Sequences, FiniteSets, TLC

\* ------------------------------------------------------------------------
\* Bounds of the model
\* ------------------------------------------------------------------------
MaxWidth == 3   \* pixels in a row of an enumerated image
MaxRows == 2    \* rows of the readings sheet at the first run
MaxRuns == 2    \* runs of the script
NowStart == 3   \* the clock at the first run, after the sample readings

\* Heights of the enumerated images; every row of an image is the same row,
\* so the image has Height * Len(row) pixels.
Heights == {1, 40, 33300, 50000}

\* Grey levels of the enumerated pixels, around the threshold and the extremes
Intensities == {0, 126, 127, 128, 255}

\* ------------------------------------------------------------------------
\* Program constants of analyze_microplastics
\* ------------------------------------------------------------------------
Thresh == 127
MaxVal == 255
PixelsPerParticle == 100
ParticlesPerPpm == 10
PpmCap == 100

VARIABLES
    epc,        \* position inside analyze_microplastics
    image,      \* the image handed to analyze_microplastics
    img,        \* cv2.imread(..., IMREAD_GRAYSCALE) result
    blur,       \* cv2.GaussianBlur result
    thresh,     \* cv2.threshold result
    count,      \* particle count
    ppm,        \* concentration, hundredths of a ppm
    pc,         \* position of the script run
    now,        \* the clock, minutes
    runs,       \* script runs started so far
    dataCols,   \* readings sheet: its column names
    dataRows,   \* readings sheet: its rows
    coordRows,  \* coordinates sheet: its rows, cells by position
    appended,   \* the rows this program handed to sheet.append_row
    saved,      \* arguments of the last push_to_existing_sheet call
    df_data,    \* readings table as loaded
    df_coords,  \* coordinates table as loaded
    df,         \* merged (then cleaned) table
    dfCols,     \* columns of df
    loadError,  \* which read_csv raised, if any
    filtered_df,
    cards,      \* the three key-stat cards as rendered
    map_df,
    trend_df,
    rain_df

estVars == <<epc, image, img, blur, thresh, count, ppm>>
sheetVars == <<dataCols, dataRows, coordRows, appended, saved>>
tableVars == <<df_data, df_coords, df, dfCols, loadError>>
viewVars == <<filtered_df, cards, map_df, trend_df, rain_df>>
runVars == <<pc, now, runs>>

vars == <<estVars, sheetVars, tableVars, viewVars, runVars>>

\* ------------------------------------------------------------------------
\* Images
\* ------------------------------------------------------------------------
Rows == UNION {[1..w -> Intensities] : w \in 1..MaxWidth}

Images == [height : Heights, row : Rows]

NoImage == [height |-> 0, row |-> <<>>]

\* cv2 borderInterpolate, BORDER_REFLECT_101 (the GaussianBlur default),
\* positions 1..len
RECURSIVE Reflect101(_, _)
Reflect101(p, len) ==
    IF len = 1 THEN 1
    ELSE IF p < 1 THEN Reflect101(2 - p, len)
    ELSE IF p > len THEN Reflect101(2 * len - p, len)
    ELSE p

\* The 5-tap Gaussian kernel cv2 uses for ksize 5, sigma 0: (1 4 6 4 1)/16
Kernel5 == <<1, 4, 6, 4, 1>>
KernelSum == 16

\* One blurred pixel of a row: the weighted sum, rounded to nearest
BlurPixel(row, x) ==
    LET tap(k) == Kernel5[k] * row[Reflect101(x + k - 3, Len(row))]
        s == tap(1) + tap(2) + tap(3) + tap(4) + tap(5)
    IN (s + (KernelSum \div 2)) \div KernelSum

\* cv2.GaussianBlur(img, (5, 5), 0). The vertical pass of the separable
\* kernel over identical rows returns the row itself, so only the horizontal
\* pass changes the pixels.
GaussianBlur(im) ==
    [height |-> im.height,
     row |-> [x \in 1..Len(im.row) |-> BlurPixel(im.row, x)]]

\* cv2.threshold(blur, 127, 255, THRESH_BINARY_INV) on one pixel:
\* dst = 0 if src > thresh, maxval otherwise
ThresholdAtOrAbove(v) == IF v >= Thresh THEN 0 ELSE MaxVal
ThresholdBinaryInv(v) == IF v > Thresh THEN 0 ELSE MaxVal

Threshold(im) ==
    [height |-> im.height,
     row |-> [x \in 1..Len(im.row) |-> ThresholdBinaryInv(im.row[x])]]

\* cv2.countNonZero
CountNonZero(im) ==
    im.height * Cardinality({x \in 1..Len(im.row) : im.row[x] # 0})

\* count = cv2.countNonZero(thresh) // 100
ParticleCountNoDivision(im) == CountNonZero(im)
ParticleCount(im) == CountNonZero(im) \div PixelsPerParticle

Min(a, b) == IF a < b THEN a ELSE b

\* Python round(x, 2) on a value given in thousandths: the result in
\* hundredths, ties to even
Round2(thousandths) ==
    LET q == thousandths \div 10
        r == thousandths % 10
    IN IF r > 5 \/ (r = 5 /\ q % 2 = 1) THEN q + 1 ELSE q

\* ppm = round(min(100, count / 10), 2), in hundredths
PpmUncapped(c) == Round2((c * 1000) \div ParticlesPerPpm)
PpmOf(c) == Round2(Min(PpmCap * 1000, (c * 1000) \div ParticlesPerPpm))

\* The whole of analyze_microplastics
AnalyzeMicroplastics(im) ==
    LET c == ParticleCount(Threshold(GaussianBlur(im)))
    IN [count |-> c, ppm |-> PpmOf(c)]

\* ------------------------------------------------------------------------
\* Cells of a sheet or of a DataFrame
\* ------------------------------------------------------------------------
Num(n) == [t |-> "num", n |-> n, s |-> ""]       \* a number
NumStr(n) == [t |-> "numstr", n |-> n, s |-> ""] \* a string spelling a number
Str(x) == [t |-> "str", n |-> 0, s |-> x]        \* any other string
Time(m) == [t |-> "time", n |-> m, s |-> ""]     \* a Timestamp
Null == [t |-> "null", n |-> 0, s |-> ""]        \* empty cell, NaN, NaT

IsNull(c) == c.t = "null"

\* ------------------------------------------------------------------------
\* Time: strftime("%Y-%m-%d %H:%M:%S") and the parse pd.to_datetime does
\* ------------------------------------------------------------------------
Minutes == 0..59

Pad2(n) == IF n < 10 THEN "0" \o ToString(n) ELSE ToString(n)

FormatTime(m) == "2025-10-07 08:" \o Pad2(m) \o ":00"

\* The readings sheet writes its times without seconds
FormatShort(m) == "2025-10-07 08:" \o Pad2(m)

Parses(x) == \E m \in Minutes : x = FormatTime(m) \/ x = FormatShort(m)

ParseTime(x) == CHOOSE m \in Minutes : x = FormatTime(m) \/ x = FormatShort(m)

\* pd.to_datetime(..., errors="coerce") on one cell
ToDatetime(c) ==
    IF c.t = "time" THEN c
    ELSE IF c.t = "str" /\ Parses(c.s) THEN Time(ParseTime(c.s))
    ELSE Null

\* pd.to_numeric(..., errors="coerce") on one cell
ToNumeric(c) ==
    IF c.t = "num" \/ c.t = "numstr" THEN Num(c.n) ELSE Null

\* ------------------------------------------------------------------------
\* The two source sheets
\* ------------------------------------------------------------------------
DataFields == {"River", "Location", "DateTime", "Microplastic_ppm", "Rainfall_mm"}

CoordHeader == <<"River", "Location", "Latitude", "Longitude">>

ReadingRow(river, loc, dt, p, rain) ==
    [River |-> Str(river), Location |-> Str(loc), DateTime |-> dt,
     Microplastic_ppm |-> p, Rainfall_mm |-> rain]

SampleReadings ==
    { ReadingRow("Ganga", "Varanasi", Str(FormatShort(1)), Num(800), Num(1200)),
      ReadingRow("Ganga", "Varanasi", Str("yesterday"), Num(1000), Null),
      ReadingRow("Yamuna", "Delhi", Str(FormatShort(2)), Str("abc"), Str("n/a")),
      ReadingRow("Yamuna", "Delhi", Null, Null, Null) }

GangaCoords == <<Str("Ganga"), Str("Varanasi"), Num(2534), Num(8297)>>
YamunaCoords == <<Str("Yamuna"), Str("Delhi"), Str("n/a"), Num(7720)>>
KaveriCoords == <<Str("Kaveri"), Str("Mysuru"), Num(1230), Num(7665)>>

\* The enumerated coordinates sheets: empty, one station, a station no
\* reading names, a station with unparsable latitude
CoordSheets ==
    { <<>>, <<GangaCoords>>, <<YamunaCoords>>, <<KaveriCoords>>,
      <<KaveriCoords, GangaCoords>> }

\* The readings sheet always has River and Location; the other columns may
\* be missing from it
DataColChoices ==
    { DataFields,
      DataFields \ {"DateTime"},
      DataFields \ {"Rainfall_mm"},
      DataFields \ {"Microplastic_ppm"} }

SeqsUpTo(S, n) == UNION {[1..k -> S] : k \in 0..n}

\* ------------------------------------------------------------------------
\* pd.read_csv: a column holding any non-numeric text is read as strings
\* (object dtype), numbers included; a missing column has no cells
\* ------------------------------------------------------------------------
ColumnIsObject(rows, f) == \E i \in 1..Len(rows) : rows[i][f].t = "str"

CsvCell(rows, i, f) ==
    IF rows[i][f].t = "num" /\ ColumnIsObject(rows, f)
    THEN NumStr(rows[i][f].n)
    ELSE rows[i][f]

ReadCsvData(cols, rows) ==
    [i \in 1..Len(rows) |->
        [f \in DataFields |-> IF f \in cols THEN CsvCell(rows, i, f) ELSE Null]]

CellAt(cells, k) == IF k <= Len(cells) THEN cells[k] ELSE Null

\* The coordinates sheet is read by header position; cells past the header
\* land in unnamed columns nothing reads
CoordFields == {CoordHeader[k] : k \in 1..Len(CoordHeader)}

HeaderIndex(f) == CHOOSE k \in 1..Len(CoordHeader) : CoordHeader[k] = f

CoordRecords(rows) ==
    [i \in 1..Len(rows) |->
        [f \in CoordFields |-> CellAt(rows[i], HeaderIndex(f))]]

ReadCsvCoords(rows) ==
    LET recs == CoordRecords(rows)
    IN [i \in 1..Len(recs) |-> [f \in CoordFields |-> CsvCell(recs, i, f)]]

\* ------------------------------------------------------------------------
\* pd.merge(df_data, df_coords, on=["River", "Location"], how="left")
\* ------------------------------------------------------------------------
MergedFields == DataFields \cup {"Latitude", "Longitude"}

Joined(l, lat, lon) ==
    [f \in MergedFields |->
        IF f = "Latitude" THEN lat
        ELSE IF f = "Longitude" THEN lon
        ELSE l[f]]

Matches(l, right) ==
    LET same(r) == r.River = l.River /\ r.Location = l.Location
    IN SelectSeq(right, same)

JoinAll(l, m) == [k \in 1..Len(m) |-> Joined(l, m[k].Latitude, m[k].Longitude)]

RECURSIVE MergeInner(_, _)
MergeInner(left, right) ==
    IF left = <<>> THEN <<>>
    ELSE JoinAll(Head(left), Matches(Head(left), right))
            \o MergeInner(Tail(left), right)

RECURSIVE MergeLeft(_, _)
MergeLeft(left, right) ==
    IF left = <<>> THEN <<>>
    ELSE LET l == Head(left)
             m == Matches(l, right)
         IN (IF m = <<>> THEN <<Joined(l, Null, Null)>> ELSE JoinAll(l, m))
                \o MergeLeft(Tail(left), right)

\* ------------------------------------------------------------------------
\* Data cleaning, lines 122-126
\* ------------------------------------------------------------------------
CleanRow(r, cols, clock) ==
    [f \in MergedFields |->
        IF f = "DateTime"
        THEN (IF "DateTime" \in cols THEN ToDatetime(r[f]) ELSE Time(clock))
        ELSE IF f \in {"Latitude", "Longitude"} THEN ToNumeric(r[f])
        ELSE IF f = "Rainfall_mm" /\ "Rainfall_mm" \in cols THEN ToNumeric(r[f])
        ELSE r[f]]

Clean(table, cols, clock) ==
    [i \in 1..Len(table) |-> CleanRow(table[i], cols, clock)]

\* df.dropna(subset=fields)
DropNa(table, fields) ==
    LET full(r) == \A f \in fields : ~IsNull(r[f])
    IN SelectSeq(table, full)

\* ------------------------------------------------------------------------
\* Key stats, lines 146-157
\* ------------------------------------------------------------------------
RECURSIVE SumOf(_, _)
SumOf(table, f) ==
    IF table = <<>> THEN 0 ELSE Head(table)[f].n + SumOf(Tail(table), f)

RECURSIVE MaxTime(_)
MaxTime(table) ==
    IF table = <<>> THEN 0
    ELSE LET m == MaxTime(Tail(table))
             h == Head(table).DateTime.n
         IN IF h > m THEN h ELSE m

\* f"{x:.2f}" of sum/n, both in hundredths: nearest hundredth, ties to even
RoundDiv(sum, n) ==
    LET q == sum \div n
        r == sum % n
    IN IF 2 * r > n \/ (2 * r = n /\ q % 2 = 1) THEN q + 1 ELSE q

Card(kind, v) == [kind |-> kind, v |-> v]
NoCard == Card("none", 0)
NoCards == <<NoCard, NoCard, NoCard>>

\* Series.mean() over the non-null cells, then the card text: "nan" when
\* there is no such cell
MeanCard(table, f) ==
    LET vals == DropNa(table, {f})
    IN IF vals = <<>> THEN Card("nan", 0)
       ELSE Card("value", RoundDiv(SumOf(vals, f), Len(vals)))

\* The rainfall card: "No Data" for a missing column or a NaN mean
RainCard(table, cols) ==
    IF "Rainfall_mm" \notin cols THEN Card("nodata", 0)
    ELSE IF DropNa(table, {"Rainfall_mm"}) = <<>> THEN Card("nodata", 0)
    ELSE MeanCard(table, "Rainfall_mm")

HasText(table, f) ==
    \E i \in 1..Len(table) : table[i][f].t \in {"str", "numstr"}

\* ------------------------------------------------------------------------
\* analyze_microplastics, one step per statement
\* ------------------------------------------------------------------------
others == <<sheetVars, tableVars, viewVars, runVars>>

Imread ==
    /\ epc = "imread"
    /\ img' = image
    /\ epc' = "blur"
    /\ UNCHANGED <<image, blur, thresh, count, ppm, others>>

Blur ==
    /\ epc = "blur"
    /\ blur' = GaussianBlur(img)
    /\ epc' = "threshold"
    /\ UNCHANGED <<image, img, thresh, count, ppm, others>>

ThresholdStep ==
    /\ epc = "threshold"
    /\ thresh' = Threshold(blur)
    /\ epc' = "count"
    /\ UNCHANGED <<image, img, blur, count, ppm, others>>

CountStep ==
    /\ epc = "count"
    /\ count' = ParticleCount(thresh)
    /\ epc' = "ppm"
    /\ UNCHANGED <<image, img, blur, thresh, ppm, others>>

PpmStep ==
    /\ epc = "ppm"
    /\ ppm' = PpmOf(count)
    /\ epc' = "returned"
    /\ UNCHANGED <<image, img, blur, thresh, count, others>>

Analyze == Imread \/ Blur \/ ThresholdStep \/ CountStep \/ PpmStep

\* ------------------------------------------------------------------------
\* The script run, top to bottom
\* ------------------------------------------------------------------------
NoSave == [river |-> "", location |-> "", ppm |-> 0, lat |-> 0, lon |-> 0,
           run |-> 0, uploaded |-> FALSE]

EstIdle ==
    /\ epc = "idle"
    /\ image = NoImage
    /\ img = NoImage
    /\ blur = NoImage
    /\ thresh = NoImage
    /\ count = 0
    /\ ppm = 0

RunStart ==
    /\ df_data = <<>>
    /\ df_coords = <<>>
    /\ df = <<>>
    /\ dfCols = {}
    /\ loadError = "none"
    /\ filtered_df = <<>>
    /\ cards = NoCards
    /\ map_df = <<>>
    /\ trend_df = <<>>
    /\ rain_df = <<>>

Init ==
    /\ pc = "load"
    /\ now = NowStart
    /\ runs = 1
    /\ dataCols \in DataColChoices
    /\ dataRows \in SeqsUpTo(SampleReadings, MaxRows)
    /\ coordRows \in CoordSheets
    /\ appended = <<>>
    /\ saved = NoSave
    /\ EstIdle
    /\ RunStart

\* Lines 99-109: both tables are read inside one try; either read raising
\* ends the run in st.stop()
LoadFromSheets ==
    /\ pc = "load"
    /\ \E failure \in {"none", "data", "coords"} :
        /\ loadError' = failure
        /\ df_data' = IF failure = "data" THEN <<>>
                      ELSE ReadCsvData(dataCols, dataRows)
        /\ df_coords' = IF failure = "none" THEN ReadCsvCoords(coordRows)
                        ELSE <<>>
        /\ pc' = IF failure = "none" THEN "merge" ELSE "stopped"
    /\ UNCHANGED <<df, dfCols, estVars, sheetVars, viewVars, now, runs>>

\* Line 112
Merge(left, right) == MergeLeft(left, right)

MergeCoordinates ==
    /\ pc = "merge"
    /\ df' = Merge(df_data, df_coords)
    /\ dfCols' = dataCols \cup {"Latitude", "Longitude"}
    /\ pc' = "clean"
    /\ UNCHANGED <<df_data, df_coords, loadError, estVars, sheetVars,
                   viewVars, now, runs>>

\* Lines 117-126
RequiredCols == {"Latitude", "Longitude", "Microplastic_ppm"}

DataCleaning ==
    /\ pc = "clean"
    /\ IF RequiredCols \subseteq dfCols
       THEN /\ df' = Clean(df, dfCols, now)
            /\ dfCols' = dfCols \cup {"DateTime"}
            /\ pc' = "select"
       ELSE /\ pc' = "stopped"
            /\ UNCHANGED <<df, dfCols>>
    /\ UNCHANGED <<df_data, df_coords, loadError, estVars, sheetVars,
                   viewVars, now, runs>>

\* Lines 132-141
AllRivers == "All Rivers"

RiverList(table) ==
    {table[i].River.s : i \in {j \in 1..Len(table) : ~IsNull(table[j].River)}}

FilterRivers(table, selected) ==
    LET keep(r) == r.River.t = "str" /\ r.River.s \in selected
    IN IF AllRivers \in selected THEN table ELSE SelectSeq(table, keep)

RiverSelection ==
    /\ pc = "select"
    /\ \E selected \in {{}} \cup {{o} : o \in {AllRivers} \cup RiverList(df)} :
        filtered_df' = FilterRivers(df, selected)
    /\ pc' = "stats"
    /\ UNCHANGED <<cards, map_df, trend_df, rain_df, estVars, sheetVars,
                   tableVars, now, runs>>

\* Lines 146-157. mean() of an object column holding text that spells no
\* number raises; of one holding only number strings it raises or returns
\* the mean of their concatenation, by pandas version. strftime of NaT
\* raises, after the first two cards are drawn.
MicroCards(table) ==
    IF \E i \in 1..Len(table) : table[i].Microplastic_ppm.t = "str"
    THEN {Card("raise", 0)}
    ELSE IF HasText(table, "Microplastic_ppm")
    THEN {Card("raise", 0), Card("garbage", 0)}
    ELSE {MeanCard(table, "Microplastic_ppm")}

UpdatedCard(table) ==
    LET dated == DropNa(table, {"DateTime"})
    IN IF dated = <<>> THEN Card("raise", 0) ELSE Card("time", MaxTime(dated))

KeyStats ==
    /\ pc = "stats"
    /\ IF filtered_df = <<>>
       THEN /\ cards' = NoCards
            /\ pc' = "map"
       ELSE \E c1 \in MicroCards(filtered_df) :
              LET c2 == RainCard(filtered_df, dfCols)
                  c3 == UpdatedCard(filtered_df)
              IN IF c1.kind = "raise"
                 THEN /\ cards' = NoCards
                      /\ pc' = "crashed"
                 ELSE IF c3.kind = "raise"
                 THEN /\ cards' = <<c1, c2, NoCard>>
                      /\ pc' = "crashed"
                 ELSE /\ cards' = <<c1, c2, c3>>
                      /\ pc' = "map"
    /\ UNCHANGED <<filtered_df, map_df, trend_df, rain_df, estVars,
                   sheetVars, tableVars, now, runs>>

\* Line 170: the rows the map plots (the plot itself is not modelled)
MapVisualization ==
    /\ pc = "map"
    /\ map_df' = DropNa(df, {"Latitude", "Longitude", "Microplastic_ppm"})
    /\ pc' = "trend"
    /\ UNCHANGED <<filtered_df, cards, trend_df, rain_df, estVars,
                   sheetVars, tableVars, now, runs>>

\* Lines 202-229
AllLocations == "All Locations"

LocationList(table) ==
    {table[i].Location.s :
        i \in {j \in 1..Len(table) : ~IsNull(table[j].Location)}}

FilterLocation(table, selected) ==
    LET keep(r) == r.Location.t = "str" /\ r.Location.s = selected
    IN IF selected = AllLocations THEN table ELSE SelectSeq(table, keep)

TrendRows(table, selected) ==
    DropNa(FilterLocation(table, selected), {"DateTime", "Microplastic_ppm"})

Trend ==
    /\ pc = "trend"
    /\ \E selected \in {AllLocations} \cup LocationList(filtered_df) :
        /\ trend_df' = TrendRows(filtered_df, selected)
        /\ rain_df' = IF "Rainfall_mm" \in dfCols
                      THEN DropNa(trend_df', {"Rainfall_mm", "DateTime"})
                      ELSE <<>>
    /\ pc' = "upload"
    /\ UNCHANGED <<filtered_df, cards, map_df, estVars, sheetVars,
                   tableVars, now, runs>>

\* Lines 258, 296-305
UploadImages == {[height |-> h, row |-> <<0, 0, 0>>] : h \in {40, 50000}}

NoUpload ==
    /\ pc = "upload"
    /\ pc' = "done"
    /\ UNCHANGED <<estVars, sheetVars, tableVars, viewVars, now, runs>>

Upload ==
    /\ pc = "upload"
    /\ image' \in UploadImages
    /\ epc' = "imread"
    /\ pc' = "analyze"
    /\ UNCHANGED <<img, blur, thresh, count, ppm, sheetVars, tableVars,
                   viewVars, now, runs>>

\* Lines 27-29: add_new_reading's row (nothing in the script calls it)
Field(kind, cell) == [kind |-> kind, cell |-> cell]

AddNewReadingRow(clock, river, location, microplastic_ppm, rainfall_mm) ==
    << Field("timestamp", Str(FormatTime(clock))),
       Field("river", Str(river)),
       Field("location", Str(location)),
       Field("concentration_ppm", Num(microplastic_ppm)),
       Field("rainfall_or_blank", Num(rainfall_mm)) >>

\* Lines 281-289: push_to_existing_sheet's row
PushRow(river, location, clock, micro_ppm, lat, lon) ==
    << Field("river", Str(river)),
       Field("location", Str(location)),
       Field("timestamp", Str(FormatTime(clock))),
       Field("concentration_ppm", Num(micro_ppm)),
       Field("rainfall_or_blank", Null),
       Field("latitude", Num(lat)),
       Field("longitude", Num(lon)) >>

Cells(row) == [k \in 1..Len(row) |-> row[k].cell]

\* Lines 310-317. The sheet opened by key at line 278 is the coordinates
\* sheet of line 97; a failure of the upload is caught and reported.
SaveKeys == { <<"Simulated River", "Virtual Station">>, <<"Ganga", "Varanasi">> }
DefaultLatitude == 2534
DefaultLongitude == 8297

SaveResult ==
    /\ pc = "analyze"
    /\ epc = "returned"
    /\ \E key \in SaveKeys, uploaded \in BOOLEAN :
        LET row == PushRow(key[1], key[2], now, ppm,
                           DefaultLatitude, DefaultLongitude)
        IN /\ saved' = [river |-> key[1], location |-> key[2], ppm |-> ppm,
                        lat |-> DefaultLatitude, lon |-> DefaultLongitude,
                        run |-> runs, uploaded |-> uploaded]
           /\ IF uploaded
              THEN /\ coordRows' = Append(coordRows, Cells(row))
                   /\ appended' = Append(appended, row)
              ELSE UNCHANGED <<coordRows, appended>>
    /\ pc' = "done"
    /\ UNCHANGED <<dataCols, dataRows, estVars, tableVars, viewVars, now, runs>>

NotSaved ==
    /\ pc = "analyze"
    /\ epc = "returned"
    /\ pc' = "done"
    /\ UNCHANGED <<estVars, sheetVars, tableVars, viewVars, now, runs>>

\* Streamlit runs the script again from the top
Rerun ==
    /\ pc \in {"done", "stopped", "crashed"}
    /\ runs < MaxRuns
    /\ pc' = "load"
    /\ runs' = runs + 1
    /\ now' = now + 1
    /\ epc' = "idle"
    /\ image' = NoImage
    /\ img' = NoImage
    /\ blur' = NoImage
    /\ thresh' = NoImage
    /\ count' = 0
    /\ ppm' = 0
    /\ df_data' = <<>>
    /\ df_coords' = <<>>
    /\ df' = <<>>
    /\ dfCols' = {}
    /\ loadError' = "none"
    /\ filtered_df' = <<>>
    /\ cards' = NoCards
    /\ map_df' = <<>>
    /\ trend_df' = <<>>
    /\ rain_df' = <<>>
    /\ UNCHANGED sheetVars

Next ==
    \/ LoadFromSheets
    \/ MergeCoordinates
    \/ DataCleaning
    \/ RiverSelection
    \/ KeyStats
    \/ MapVisualization
    \/ Trend
    \/ NoUpload
    \/ Upload
    \/ (pc = "analyze" /\ Analyze)
    \/ SaveResult
    \/ NotSaved
    \/ Rerun

Spec == Init /\ [][Next]_vars

\* ------------------------------------------------------------------------
\* The estimator alone, over every enumerated image
\* ------------------------------------------------------------------------
InitEst ==
    /\ epc = "imread"
    /\ image \in Images
    /\ img = NoImage
    /\ blur = NoImage
    /\ thresh = NoImage
    /\ count = 0
    /\ ppm = 0
    /\ pc = "analyze"
    /\ now = NowStart
    /\ runs = 1
    /\ dataCols = DataFields
    /\ dataRows = <<>>
    /\ coordRows = <<>>
    /\ appended = <<>>
    /\ saved = NoSave
    /\ RunStart

NextEst == Imread \/ Blur \/ ThresholdStep \/ CountStep \/ PpmStep

SpecEst == InitEst /\ [][NextEst]_vars

\* ------------------------------------------------------------------------
\* Properties of the estimator (checked under SpecEst)
\* ------------------------------------------------------------------------
Pixels(im) == im.height * Len(im.row)

Uniform(im, v) == \A x \in 1..Len(im.row) : im.row[x] = v

Thresholded == epc \in {"count", "ppm", "returned"}

\* C1: particle_count is the number of foreground pixels of the thresholded
\* image integer-divided by 100; concentration_ppm is min(100, count / 10)
\* to two decimals, so it lies in 0..100, is 100 exactly when count >= 1000,
\* and is the value analyze_microplastics computes from the image alone.
C1_CountAndPpm ==
    epc = "returned" =>
        /\ count = CountNonZero(thresh) \div 100
        /\ (count < 1000 => ppm = count * 10)
        /\ (count >= 1000 => ppm = 10000)
        /\ ppm >= 0 /\ ppm <= 10000
        /\ (ppm = 10000 <=> count >= 1000)
        /\ [count |-> count, ppm |-> ppm] = AnalyzeMicroplastics(image)

\* C1 witness: an image whose count reaches the cap exactly
C1_Witness == epc = "returned" /\ count = 1000 /\ ppm = 10000

\* C2 as stated: a blurred pixel is foreground exactly when it is strictly
\* below 127, so a pixel of exactly 127 is background.
C2_StrictlyBelow ==
    Thresholded =>
        \A x \in 1..Len(blur.row) :
            (thresh.row[x] = 255) <=> (blur.row[x] < 127)

\* C2 amended: a blurred pixel is foreground (255) exactly when it is at or
\* below 127 and background (0) exactly when it is above 127.
C2_AtOrBelow ==
    Thresholded =>
        \A x \in 1..Len(blur.row) :
            /\ (thresh.row[x] = 255) <=> (blur.row[x] <= 127)
            /\ (thresh.row[x] = 0) <=> (blur.row[x] > 127)

\* C2 witness: a blurred pixel of exactly 127 that was counted as foreground
C2_Witness ==
    /\ epc = "returned"
    /\ \E x \in 1..Len(blur.row) : blur.row[x] = 127 /\ thresh.row[x] = 255
    /\ \E x \in 1..Len(blur.row) : blur.row[x] = 128 /\ thresh.row[x] = 0

\* C3 as stated: at every resolution an all-white image gives count 0 and
\* 0.0 ppm, and an all-black image gives the maximum foreground count and
\* ppm clamped to 100.0.
C3_BlackIsAlwaysCapped ==
    epc = "returned" =>
        /\ Uniform(image, 255) => count = 0 /\ ppm = 0
        /\ Uniform(image, 0) =>
              CountNonZero(thresh) = Pixels(image) /\ ppm = 10000

\* C3 amended: an all-white image gives count 0 and 0.0 ppm; an all-black
\* image of w x h pixels gives w*h foreground pixels, count w*h // 100 and
\* ppm min(100, count / 10), which is 100.0 exactly when w*h >= 100000.
C3_BlackByResolution ==
    epc = "returned" =>
        /\ Uniform(image, 255) => count = 0 /\ ppm = 0
        /\ Uniform(image, 0) =>
              /\ CountNonZero(thresh) = Pixels(image)
              /\ count = Pixels(image) \div 100
              /\ ppm = Min(10000, count * 10)
              /\ (ppm = 10000 <=> Pixels(image) >= 100000)

\* C3 witness: an all-black image large enough to reach the cap
C3_Witness ==
    /\ epc = "returned"
    /\ Uniform(image, 0)
    /\ Pixels(image) >= 100000
    /\ ppm = 10000

\* ------------------------------------------------------------------------
\* Properties of the script run (checked under Spec)
\* ------------------------------------------------------------------------
SameKey(a, b) == a.River = b.River /\ a.Location = b.Location

FromReading(m, r) == \A f \in DataFields : m[f] = r[f]

HasCoords(r) == \E k \in 1..Len(df_coords) : SameKey(df_coords[k], r)

\* C4: the merge is a left join from readings: every merged row comes from
\* a readings row, and every readings row appears in the merged table, with
\* null Latitude/Longitude when no coordinates row has its (River, Location).
C4_LeftJoin ==
    pc = "clean" =>
        /\ \A i \in 1..Len(df) : \E j \in 1..Len(df_data) :
              FromReading(df[i], df_data[j])
        /\ \A j \in 1..Len(df_data) : \E i \in 1..Len(df) :
              /\ FromReading(df[i], df_data[j])
              /\ ~HasCoords(df_data[j]) =>
                    IsNull(df[i].Latitude) /\ IsNull(df[i].Longitude)
        /\ Len(df) >= Len(df_data)

\* C4 witness: a merge with a reading that has no coordinates and a
\* coordinates row that no reading names
C4_Witness ==
    /\ pc = "clean"
    /\ \E j \in 1..Len(df_data) : ~HasCoords(df_data[j])
    /\ \E k \in 1..Len(df_coords) :
          \A j \in 1..Len(df_data) : ~SameKey(df_coords[k], df_data[j])
    /\ \E j \in 1..Len(df_data) : HasCoords(df_data[j])

\* C5: a failure to load the readings table ends the run, whereas a failure
\* to load the coordinates table does not: the run goes on.
C5_CoordsFailureDegrades ==
    /\ loadError = "data" => pc = "stopped"
    /\ loadError = "coords" => pc # "stopped"

PersistedOrder ==
    << "timestamp", "river", "location", "concentration_ppm",
       "rainfall_or_blank", "latitude", "longitude" >>

\* C6: every row handed to the sink has its fields in the persisted order
\* (timestamp, river, location, concentration_ppm, rainfall_or_blank,
\* latitude, longitude).
C6_PersistedOrder ==
    \A a \in 1..Len(appended) :
        [k \in 1..Len(appended[a]) |-> appended[a][k].kind] = PersistedOrder

\* C7: after a reading is appended by the save action, the next run's merged
\* table holds a record for its (river, location) whose Microplastic_ppm is
\* the saved ppm.
C7_RoundTrip ==
    (pc = "clean" /\ saved.uploaded /\ saved.run < runs) =>
        \E i \in 1..Len(df) :
            /\ df[i].River = Str(saved.river)
            /\ df[i].Location = Str(saved.location)
            /\ df[i].Microplastic_ppm.t \in {"num", "numstr"}
            /\ df[i].Microplastic_ppm.n = saved.ppm

\* C8: the key stats never fail and never show a numeric artifact for a
\* value without data: with no non-null concentration (or timestamp) in the
\* filtered set the card is a no-data state.
C8_NoNumericArtifact ==
    pc \in {"map", "crashed"} =>
        /\ pc # "crashed"
        /\ DropNa(filtered_df, {"Microplastic_ppm"}) = <<>> =>
              cards[1].kind \in {"none", "nodata"}
        /\ DropNa(filtered_df, {"DateTime"}) = <<>> =>
              cards[3].kind \in {"none", "nodata"}

\* The run is past the data cleaning
Normalized == pc \notin {"load", "merge", "clean", "stopped"}

\* C9: after field normalization every record has a timestamp (the
\* ingestion time when its own is absent or unparsable), so none is dropped
\* from the trend for its timestamp.
C9_TimestampNeverNull ==
    Normalized => \A i \in 1..Len(df) : df[i].DateTime.t = "time"

\* C10: after cleaning, each of Latitude, Longitude, Microplastic_ppm and
\* Rainfall_mm holds a number or null in every row.
C10_NumericOrNull ==
    Normalized =>
        \A i \in 1..Len(df) :
            \A f \in {"Latitude", "Longitude", "Microplastic_ppm", "Rainfall_mm"} :
                f \in dfCols => df[i][f].t \in {"num", "null"}

====
